---- MODULE Spec2Model ----
(***************************************************************************)
(* Model of astrbot_plugin_mnemosyne.                                      *)
(*                                                                         *)
(* Part 1: the dimension migration, init_memory_system_cmd_impl            *)
(* (src/core/commands.py:422-725).  The handler is an async generator; it  *)
(* is cut into one action per remote call / file-system call, so that the  *)
(* states between the calls are visible.  The vector store (collection     *)
(* existence, width, rows), the backup file, the plugin configuration and  *)
(* the messages yielded to the caller are state.  The outcome of every     *)
(* remote call is chosen nondeterministically when the call is made.       *)
(***************************************************************************)
EXTENDS Integers, Sequences, FiniteSets, TLC

\* ---------------------------------------------------------------- bounds
\* Greatest number of rows the old collection holds when the command starts.
MaxRecords == 3

\* batch_size of the export loop.  The code uses 16384; the model scales it
\* down so that full pages, short pages and empty pages all occur.
BatchSize == 2

\* Progress is reported every 10 processed records in the code; scaled down.
ProgressEvery == 2

\* Embedding widths the provider / the schema can have (0: None or invalid).
Dims == {1, 2}
ProviderDims == {0} \cup Dims

\* ----------------------------------------------------------- the records
\* Rows as returned by query with output_fields content, create_time,
\* session_id, personality_id.
RecordPool ==
  { [content |-> "a", session_id |-> "s1", personality_id |-> "p1", create_time |-> 1],
    [content |-> "b", session_id |-> "s2", personality_id |-> "p2", create_time |-> 2],
    [content |-> "",  session_id |-> "s1", personality_id |-> "p2", create_time |-> 3] }

SeqsUpTo(S, n) == UNION { [1..k -> S] : k \in 0..n }

Min(a, b) == IF a < b THEN a ELSE b

\* ------------------------------------------------------------- the state
VARIABLES
  pc,            \* position in init_memory_system_cmd_impl
  force,         \* argument force: "none" (None), "--force", "other"
  milvus,        \* "none": no manager; "connected"; "lazy_ok"/"lazy_fail":
                 \* not connected, list_collections() then works / raises
  providerReady, \* embedding_provider and _embedding_provider_ready
  providerDim,   \* embedding_dim / get_dim() of the provider (0: invalid)
  schemaReadable,\* get_collection returns a collection with an embedding field
  pluginDataDir, \* self.plugin_data_dir is set
  collExists,    \* the store: the collection exists
  collDim,       \* the store: width of its embedding field
  collRecords,   \* the store: its rows
  initRecords,   \* rows of the collection when the command started
  initExists,    \* the collection existed when the command started
  configDim,     \* self.config["embedding_dim"]
  old_dim,       \* local old_dim (0: None)
  backup,        \* backup file: [state: "none"|"partial"|"written", records]
  all_records,   \* local all_records
  offset,        \* local offset
  i,             \* number of records the re-embed loop has processed
  success_count,
  fail_count,
  calls,         \* number of calls made of each remote operation
  results,       \* what the remote calls returned: [query_failed, drop,
                 \* create, flush]
  embedTried,    \* indices of old_records whose embedding was requested
  outcomes,      \* per processed record: << embedding, insert >> outcome
  initConfigDim, \* self.config["embedding_dim"] when the command started
  out,           \* messages yielded so far
  finalReport,   \* counts of the last report: [given, success, fail, dim]
  \* --- the other administrative commands (Part 2)
  cmd,           \* the command that runs: "init", "drop_collection",
                 \* "list_records", "delete_session", "remove_tags",
                 \* "remove_system_tags", "remove_system_content",
                 \* "tracker"
  connected,     \* milvus_manager is set and is_connected() is True
  confirm,       \* argument confirm: "none" (None), "--confirm", "other"
  sessionArg,    \* session id handed to the command, a string of characters
  limitArg,      \* argument limit as handed to list_records
  log,           \* calls made so far, in order
  expr,          \* the filter expression built
  fetched,       \* list_records: fetched_records after the sort
  display,       \* list_records: display_records
  \* --- the retention of memory blocks (Part 3)
  contents,            \* argument contents: the messages of the context
  contexts_memory_len, \* argument contexts_memory_len, the budget K
  cleaned_contents,    \* what remove_mnemosyne_tags, or
                       \* remove_system_content, returned
  text,                \* argument text of remove_system_mnemosyne_tags
  cleaned_text,        \* what remove_system_mnemosyne_tags returned
  \* --- the session tracker, ConversationContextManager (Part 4)
  conversations,       \* self.conversations, a dict: the set of its items
  lockOwner,           \* the thread that holds self._lock, 0 if it is free
  tpc,                 \* per thread: where it is in its call
  call,                \* per thread: the method it calls and its session_id
  ret,                 \* per thread: what its last call returned
  now,                 \* the clock, time.time()
  callsLeft,           \* per thread: calls it may still start
  seqMap               \* the calls so far applied one after the other, in
                       \* the order in which they took effect

trackerVars == << conversations, lockOwner, tpc, call, ret, now, callsLeft,
                 seqMap >>

tagVars == << contents, contexts_memory_len, cleaned_contents, text,
              cleaned_text >>

cmdVars == << cmd, connected, confirm, sessionArg, limitArg, log, expr,
              fetched, display >>

vars == << cmdVars, tagVars, trackerVars, pc, force, milvus, providerReady, providerDim, schemaReadable,
           pluginDataDir, collExists, collDim, collRecords, initRecords,
           initExists, configDim, old_dim, backup, all_records, offset, i,
           success_count, fail_count, calls, results, embedTried, outcomes,
           initConfigDim, out, finalReport >>

\* What the migration reads but never writes: its inputs, and the state of
\* the other commands.
inputVars == << force, milvus, providerReady, providerDim, schemaReadable,
                pluginDataDir, initRecords, initExists, initConfigDim,
                cmdVars, tagVars, trackerVars >>
storeVars == << collExists, collDim, collRecords >>
loopVars  == << i, success_count, fail_count, embedTried, outcomes >>
exportVars == << all_records, offset >>

NoCalls == [query |-> 0, drop |-> 0, create |-> 0, embed |-> 0,
            insert |-> 0, flush |-> 0]

NoResults == [query_failed |-> FALSE, drop |-> "none", create |-> "none",
              flush |-> "none"]

NoReport == [given |-> FALSE, success |-> 0, fail |-> 0, dim |-> 0]

NoExpr == [kind |-> "none", value |-> << >>]

\* limit: int = 5, the default of list_records_cmd_impl.
DefaultLimit == [kind |-> "int", n |-> 5, numeric |-> TRUE]

\* Number of threads that call the tracker.
NumThreads == 2

Threads == 1..NumThreads

NoCall == [op |-> "none", session_id |-> "none"]

NoReturn == [kind |-> "none", time |-> 0]

\* The tracker while a command runs: constructed, and never called.
TrackerIdle ==
  /\ conversations = {}
  /\ lockOwner = 0
  /\ tpc = [t \in Threads |-> "idle"]
  /\ call = [t \in Threads |-> NoCall]
  /\ ret = [t \in Threads |-> NoReturn]
  /\ now = 1
  /\ callsLeft = [t \in Threads |-> 0]
  /\ seqMap = {}

\* The arguments of remove_mnemosyne_tags while a command runs.
TagIdle ==
  /\ contents = << >>
  /\ contexts_memory_len = 0
  /\ cleaned_contents = << >>
  /\ text = << >>
  /\ cleaned_text = << >>

\* The state of the other commands while init_memory_system_cmd_impl runs.
CmdIdle ==
  /\ TagIdle
  /\ TrackerIdle
  /\ cmd = "init"
  /\ connected = FALSE
  /\ confirm = "none"
  /\ sessionArg = << >>
  /\ limitArg = DefaultLimit
  /\ log = << >>
  /\ expr = NoExpr
  /\ fetched = << >>
  /\ display = << >>

MigInit ==
  /\ CmdIdle
  /\ pc = "probe"
  /\ force \in {"none", "--force", "other"}
  /\ milvus \in {"none", "connected", "lazy_ok", "lazy_fail"}
  /\ providerReady \in BOOLEAN
  /\ providerDim \in ProviderDims
  /\ schemaReadable \in BOOLEAN
  /\ pluginDataDir \in BOOLEAN
  /\ collExists \in BOOLEAN
  /\ collDim \in Dims
  /\ collRecords \in SeqsUpTo(RecordPool, MaxRecords)
  /\ (~collExists => collRecords = << >> /\ collDim = 1)
  /\ initRecords = collRecords
  /\ initExists = collExists
  /\ configDim \in Dims
  /\ initConfigDim = configDim
  /\ old_dim = 0
  /\ backup = [state |-> "none", records |-> << >>]
  /\ all_records = << >>
  /\ offset = 0
  /\ i = 0
  /\ success_count = 0
  /\ fail_count = 0
  /\ calls = NoCalls
  /\ results = NoResults
  /\ embedTried = {}
  /\ outcomes = << >>
  /\ out = << >>
  /\ finalReport = NoReport

\* The handler returns (or its outer except reports) with message m.
Stop(m) ==
  /\ pc' = "done"
  /\ out' = Append(out, m)


\* ------------------------------------------------------------ the store
\* Outcomes of milvus_manager.query: rows, the failure result None, or an
\* exception ("milvus_manager.query 通常会返回 None 或抛出异常").
QueryOutcomes == {"ok", "none", "raise"}

\* The page query(expression "id >= 0", limit, offset) returns on success.
QueryPage(rows, limit, off) ==
  IF off >= Len(rows) THEN << >>
  ELSE SubSeq(rows, off + 1, Min(off + limit, Len(rows)))

\* What query hands back to the caller: None on failure, else the page.
QueryResult(res, rows, limit, off) ==
  IF res = "none" THEN [none |-> TRUE, rows |-> << >>]
  ELSE [none |-> FALSE, rows |-> QueryPage(rows, limit, off)]

\* Python truth value of "not batch_records": None and [] are both falsy.
NotBatch(r) == r.none \/ r.rows = << >>

\* Outcomes of drop_collection: True, False, or an exception.
DropOutcomes == {"true", "false", "raise"}

\* Outcomes of initialization.setup_milvus_collection_and_index(self,
\* skip_if_not_ready=False): the collection is created, or the failure is
\* raised to the caller.
CreateOutcomes == {"ok", "raise"}

\* Outcomes of embedding_provider.get_embedding and milvus_manager.insert.
EmbedOutcomes == {"ok", "empty", "raise"}
InsertOutcomes == {"ok", "false", "raise"}
FlushOutcomes == {"ok", "raise"}

\* Mutant: the row is stamped with the time of the migration.
InsertRow_Restamped(record, dim) ==
  [personality_id |-> record.personality_id,
   session_id |-> record.session_id,
   content |-> record.content,
   embedding |-> [of |-> record.content, dim |-> dim],
   create_time |-> 0]

\* The row the loop inserts for an exported record.
InsertRow(record, dim) ==
  [personality_id |-> record.personality_id,
   session_id |-> record.session_id,
   content |-> record.content,
   embedding |-> [of |-> record.content, dim |-> dim],
   create_time |-> record.create_time]

\* ------------------------------------------------- decisions of the code
\* Mutant: every existing collection is migrated.
NeedsMigration_Always(od, cd) == TRUE

\* old_dim != current_dim
NeedsMigration(od, cd) == od # cd

\* Mutant: any non-empty flag confirms.
ForceGiven_Truthy(f) == f # "none"

\* force != "--force" is the refusal; this is its negation.
ForceGiven(f) == f = "--force"

\* Mutant: a failed backup write does not abort.
AfterBackup_Ignored(res) == "drop"

\* Where the handler goes after the backup write.
AfterBackup(res) == IF res = "ok" THEN "drop" ELSE "done"

\* Where the handler goes after mkdir of the backup directory.
AfterMkdir(ok) == IF ok THEN "export" ELSE "done"

\* Mutant: a drop that returned False is tried again.
AfterDrop_Retry(res) ==
  IF res = "true" THEN "create" ELSE IF res = "false" THEN "drop" ELSE "done"

\* Mutant: the boolean returned by drop_collection is not looked at.
AfterDrop_ReturnIgnored(res) == IF res = "raise" THEN "done" ELSE "create"

\* Where the handler goes after drop_collection.
AfterDrop(res) == IF res = "true" THEN "create" ELSE "done"

\* Mutant: a failed creation is swallowed and the run goes on.
AfterCreate_Ignored(res) == "reembed"

\* Where the handler goes after the creation of the new collection.
AfterCreate(res) == IF res = "ok" THEN "reembed" ELSE "done"

\* Mutant: an insert that raises is logged but not counted.
CountOutcome_RaiseUncounted(content, emb, ins) ==
  IF content = "" THEN << 0, 0 >>
  ELSE IF emb # "ok" THEN << 0, 1 >>
  ELSE IF ins = "ok" THEN << 1, 0 >>
  ELSE IF ins = "raise" THEN << 0, 0 >>
  ELSE << 0, 1 >>

\* Mutant: success is counted when the insert is issued, the failure when
\* its result is seen.
CountOutcome_CountedAtIssue(content, emb, ins) ==
  IF content = "" THEN << 0, 0 >>
  ELSE IF emb # "ok" THEN << 0, 1 >>
  ELSE IF ins = "ok" THEN << 1, 0 >>
  ELSE << 1, 1 >>

\* What one iteration of the re-embed loop adds to <<success, fail>>.
CountOutcome(content, emb, ins) ==
  IF content = "" THEN << 0, 0 >>
  ELSE IF emb # "ok" THEN << 0, 1 >>
  ELSE IF ins = "ok" THEN << 1, 0 >>
  ELSE << 0, 1 >>

\* Mutant: an exception in the loop body ends the loop.
AfterRecord_AbortOnRaise(k, n, emb, ins) ==
  IF emb = "raise" \/ ins = "raise" \/ k >= n THEN "flush" ELSE "reembed"

\* Where the loop goes after record number k of n (the except clause of the
\* loop body swallows every exception, so the outcome does not matter).
AfterRecord(k, n, emb, ins) == IF k < n THEN "reembed" ELSE "flush"

\* ---------------------------------------------------------- the actions
\* Lines 428-473: manager, connection, provider and width checks.
Probe ==
  /\ pc = "probe"
  /\ IF milvus = "none" THEN Stop("no_milvus")
     ELSE IF milvus = "lazy_fail" THEN Stop("connect_fail")
     ELSE IF ~providerReady THEN Stop("provider_not_ready")
     ELSE IF providerDim <= 0 THEN Stop("dim_invalid")
     ELSE pc' = "compare" /\ out' = out
  /\ UNCHANGED << inputVars, storeVars, loopVars, exportVars, configDim,
                  old_dim, backup, calls, results, finalReport >>

\* Lines 475-515 and 700-708: existence, width comparison, confirmation.
Compare ==
  /\ pc = "compare"
  /\ IF collExists
     THEN /\ old_dim' = IF schemaReadable THEN collDim ELSE 0
          /\ IF schemaReadable /\ NeedsMigration(collDim, providerDim)
             THEN IF ~ForceGiven(force)
                  THEN Stop("mismatch_warning")
                  ELSE pc' = "mkdir" /\ out' = Append(out, "migration_start")
             ELSE Stop("dims_match")
     ELSE /\ old_dim' = old_dim
          /\ pc' = "create_fresh"
          /\ out' = Append(out, "creating")
  /\ UNCHANGED << inputVars, storeVars, loopVars, exportVars, configDim,
                  backup, calls, results, finalReport >>

\* Lines 517-541: plugin data directory and backup directory.
PrepareBackupDir ==
  /\ pc = "mkdir"
  /\ IF ~pluginDataDir THEN Stop("no_data_dir")
     ELSE \E ok \in BOOLEAN :
            /\ pc' = AfterMkdir(ok)
            /\ out' = Append(out, IF ok THEN "exporting" ELSE "mkdir_fail")
  /\ UNCHANGED << inputVars, storeVars, loopVars, exportVars, configDim,
                  old_dim, backup, calls, results, finalReport >>

\* Lines 548-580: one iteration of the export loop (one query call).
ExportPage ==
  /\ pc = "export"
  /\ calls' = [calls EXCEPT !.query = @ + 1]
  /\ \E res \in QueryOutcomes :
       /\ results' = [results EXCEPT !.query_failed = @ \/ res # "ok"]
       /\ IF res = "raise"
          THEN /\ Stop("export_fail")
               /\ UNCHANGED exportVars
          ELSE LET batch_records == QueryResult(res, collRecords, BatchSize, offset)
               IN IF NotBatch(batch_records)
                  THEN /\ pc' = "backup"
                       /\ UNCHANGED << exportVars, out >>
                  ELSE /\ all_records' = all_records \o batch_records.rows
                       /\ offset' = offset + Len(batch_records.rows)
                       /\ pc' = IF Len(batch_records.rows) < BatchSize
                                THEN "backup" ELSE "export"
                       /\ out' = out
  /\ UNCHANGED << inputVars, storeVars, loopVars, configDim, old_dim,
                  backup, finalReport >>

\* Lines 582-610: the backup file is written.
WriteBackup ==
  /\ pc = "backup"
  /\ \E res \in {"ok", "open_fail", "dump_fail"} :
       /\ backup' = IF res = "ok"
                    THEN [state |-> "written", records |-> all_records]
                    ELSE IF res = "dump_fail"
                    THEN [state |-> "partial", records |-> << >>]
                    ELSE backup
       /\ pc' = AfterBackup(res)
       /\ out' = Append(out, IF res = "ok" THEN "backup_ok" ELSE "backup_fail")
  /\ UNCHANGED << inputVars, storeVars, loopVars, exportVars, configDim,
                  old_dim, calls, results, finalReport >>

\* Lines 612-617 (and 723-725 when drop_collection raises).
DropOld ==
  /\ pc = "drop"
  /\ calls' = [calls EXCEPT !.drop = @ + 1]
  /\ \E res \in DropOutcomes :
       /\ results' = [results EXCEPT !.drop = res]
       /\ IF res = "true"
          THEN collExists' = FALSE /\ collRecords' = << >> /\ collDim' = collDim
          ELSE UNCHANGED storeVars
       /\ pc' = AfterDrop(res)
       /\ out' = Append(out, IF res = "true" THEN "dropped"
                             ELSE IF res = "false" THEN "drop_fail"
                             ELSE "init_failed")
  /\ UNCHANGED << inputVars, loopVars, exportVars, configDim, old_dim,
                  backup, finalReport >>

\* Lines 619-638 (and 723-725 when the creation raises).
Recreate ==
  /\ pc = "create"
  /\ configDim' = providerDim
  /\ calls' = [calls EXCEPT !.create = @ + 1]
  /\ \E res \in CreateOutcomes :
       /\ results' = [results EXCEPT !.create = res]
       /\ IF res = "ok"
          THEN collExists' = TRUE /\ collDim' = providerDim /\ collRecords' = << >>
          ELSE UNCHANGED storeVars
       /\ IF AfterCreate(res) = "done"
          THEN Stop("init_failed")
          ELSE IF all_records # << >>
          THEN pc' = "reembed" /\ out' = out \o << "created", "reembedding" >>
          ELSE pc' = "report" /\ out' = Append(out, "created")
  /\ UNCHANGED << inputVars, loopVars, exportVars, old_dim, backup,
                  finalReport >>

\* Lines 642-686: one iteration of the re-embed loop.
ReembedRecord ==
  /\ pc = "reembed"
  /\ i < Len(all_records)
  /\ LET record == all_records[i + 1]
         content == record.content
     IN \E emb \in EmbedOutcomes, ins \in InsertOutcomes :
          LET d == CountOutcome(content, emb, ins)
              embedded == content # ""
              inserted == embedded /\ emb = "ok"
          IN /\ (~embedded => emb = "ok" /\ ins = "ok")
             /\ (~inserted => ins = "ok")
             /\ calls' = [calls EXCEPT
                            !.embed = IF embedded THEN @ + 1 ELSE @,
                            !.insert = IF inserted THEN @ + 1 ELSE @]
             /\ embedTried' = IF embedded THEN embedTried \cup {i + 1}
                              ELSE embedTried
             /\ collRecords' = IF inserted /\ ins = "ok"
                               THEN Append(collRecords, InsertRow(record, providerDim))
                               ELSE collRecords
             /\ success_count' = success_count + d[1]
             /\ fail_count' = fail_count + d[2]
             /\ outcomes' = Append(outcomes, << emb, ins >>)
             /\ out' = IF inserted /\ ins # "raise" /\ (i + 1) % ProgressEvery = 0
                       THEN Append(out, "progress") ELSE out
             /\ i' = i + 1
             /\ pc' = AfterRecord(i + 1, Len(all_records), emb, ins)
  /\ UNCHANGED << inputVars, collExists, collDim, exportVars, configDim,
                  old_dim, backup, results, finalReport >>

\* Mutant: the flush call is left out.
FlushNew_Skipped ==
  /\ pc = "flush"
  /\ pc' = "report"
  /\ UNCHANGED << inputVars, storeVars, loopVars, exportVars, configDim,
                  old_dim, backup, calls, results, out, finalReport >>

\* Line 689: flush of the new collection (lines 723-725 when it raises).
FlushNew ==
  /\ pc = "flush"
  /\ calls' = [calls EXCEPT !.flush = @ + 1]
  /\ \E res \in FlushOutcomes :
       /\ results' = [results EXCEPT !.flush = res]
       /\ IF res = "ok"
          THEN pc' = "report" /\ out' = out
          ELSE Stop("init_failed")
  /\ UNCHANGED << inputVars, storeVars, loopVars, exportVars, configDim,
                  old_dim, backup, finalReport >>

\* Lines 635 and 691-698: the final report, with the counts when there were
\* old records.
FinalReport ==
  /\ pc = "report"
  /\ IF all_records # << >>
     THEN /\ Stop("migration_done")
          /\ finalReport' = [given |-> TRUE, success |-> success_count,
                             fail |-> fail_count, dim |-> providerDim]
     ELSE /\ Stop("migration_done_empty")
          /\ UNCHANGED finalReport
  /\ UNCHANGED << inputVars, storeVars, loopVars, exportVars, configDim,
                  old_dim, backup, calls, results >>

\* Lines 706-725: the collection does not exist and is created.
CreateFresh ==
  /\ pc = "create_fresh"
  /\ configDim' = providerDim
  /\ calls' = [calls EXCEPT !.create = @ + 1]
  /\ \E res \in CreateOutcomes :
       /\ results' = [results EXCEPT !.create = res]
       /\ IF res = "ok"
          THEN /\ collExists' = TRUE /\ collDim' = providerDim
               /\ collRecords' = << >>
               /\ Stop("fresh_created")
          ELSE /\ UNCHANGED storeVars
               /\ Stop("init_failed")
  /\ UNCHANGED << inputVars, loopVars, exportVars, old_dim, backup,
                  finalReport >>

MigNext ==
  \/ Probe
  \/ Compare
  \/ PrepareBackupDir
  \/ ExportPage
  \/ WriteBackup
  \/ DropOld
  \/ Recreate
  \/ ReembedRecord
  \/ FlushNew
  \/ FinalReport
  \/ CreateFresh

MigSpec == MigInit /\ [][MigNext]_vars

\* The handler is a generator driven to completion by the command
\* dispatcher: every enabled step is eventually taken.
MigFairSpec == MigSpec /\ WF_vars(MigNext)

TypeOK ==
  /\ pc \in {"probe", "compare", "mkdir", "export", "backup", "drop", "create",
             "reembed", "flush", "report", "create_fresh", "done"}
  /\ i \in 0..Len(all_records)
  /\ success_count \in Nat /\ fail_count \in Nat
  /\ backup.state \in {"none", "partial", "written"}

\* ------------------------------------------------------ vocabulary
Said(m) == \E k \in 1..Len(out) : out[k] = m

LastSaid(m) == out # << >> /\ out[Len(out)] = m

NoDestructiveCall == calls.drop = 0 /\ calls.create = 0 /\ calls.insert = 0

NoStoreMutation == NoDestructiveCall /\ calls.flush = 0

StoreUntouched ==
  /\ collExists = initExists
  /\ collRecords = initRecords

BackupFailed == Said("no_data_dir") \/ Said("mkdir_fail") \/ Said("backup_fail")

\* Number of exported records with non-empty content.
NonEmptyCount(recs) == Cardinality({ k \in 1..Len(recs) : recs[k].content # "" })

\* Record k of the loop failed: its embedding call raised or returned an
\* empty vector, or its insert raised or returned failure.
RecordFailed(k) ==
  /\ all_records[k].content # ""
  /\ \/ outcomes[k][1] \in {"raise", "empty"}
     \/ outcomes[k][2] \in {"raise", "false"}

\* ---------------------------------------------------------------- C1
\* C1: drop_collection is called only once the backup file has been written
\* completely; when the plugin data directory is missing, or the backup
\* directory cannot be created, or the backup write fails, the run ends
\* without any call of drop_collection, collection creation or insert.
C1_DropOnlyAfterBackup ==
  /\ [](calls.drop > 0 => backup.state = "written")
  /\ [](BackupFailed => pc = "done" /\ NoDestructiveCall /\ StoreUntouched)
  /\ [][calls'.drop > calls.drop => backup.state = "written"]_vars

C1_Witness ==
  /\ pc = "done"
  /\ Said("backup_fail")
  /\ Len(all_records) = Len(initRecords)
  /\ Len(all_records) > BatchSize

\* ---------------------------------------------------------------- C2
\* C2: in every state of a migration run (the collection existed when the
\* command started), the old collection still exists with all its rows, or
\* a completely written backup holds every row the collection had at the
\* start.
C2_AlwaysRecoverable ==
  initExists =>
    \/ collExists /\ collRecords = initRecords
    \/ backup.state = "written" /\ backup.records = initRecords

\* ---------------------------------------------------------------- C3
\* C3: when the collection exists and its embedding width D_old equals the
\* provider's width D_new, the command makes no drop, create, insert or
\* flush call, writes no backup, and reports that no re-initialisation is
\* needed, with or without --force.
C3_SameDimNoMutation ==
  (old_dim # 0 /\ old_dim = providerDim) =>
    /\ pc = "done"
    /\ LastSaid("dims_match")
    /\ NoStoreMutation
    /\ calls.query = 0
    /\ backup.state = "none"
    /\ StoreUntouched
    /\ configDim = initConfigDim

C3_Witness ==
  /\ old_dim # 0 /\ old_dim = providerDim
  /\ force = "--force"
  /\ pc = "done"
  /\ Len(initRecords) > 0

\* ---------------------------------------------------------------- C4
\* C4: when the widths differ and force is not "--force", the command
\* reports the mismatch together with the command to proceed and makes no
\* export query, no backup, no drop, create or insert, and leaves
\* config["embedding_dim"] as it was.
C4_MismatchNeedsForce ==
  (old_dim # 0 /\ old_dim # providerDim /\ force # "--force") =>
    /\ pc = "done"
    /\ LastSaid("mismatch_warning")
    /\ calls = NoCalls
    /\ backup.state = "none"
    /\ StoreUntouched
    /\ configDim = initConfigDim

C4_Witness ==
  /\ old_dim # 0 /\ old_dim # providerDim
  /\ force = "other"
  /\ pc = "done"
  /\ Len(initRecords) > 0

\* ---------------------------------------------------------------- C5
\* C5: once a page query of the export has failed (returned the failure
\* result None or raised), no backup is accepted as written and no drop,
\* create or insert follows.
C5_QueryFailureAborts ==
  results.query_failed =>
    /\ backup.state # "written"
    /\ NoDestructiveCall
    /\ pc \in {"done", "backup"}

\* ---------------------------------------------------------------- C6
\* C6 (as stated): the success count plus the failure count of the final
\* report equals the number N of exported records.
C6_CountsSumToExported ==
  finalReport.given =>
    finalReport.success + finalReport.fail = Len(all_records)

\* C6 (amended): the success count plus the failure count of the final
\* report equals the number of exported records whose content is not empty;
\* records with empty content are skipped and counted in neither.
C6_CountsSumToNonEmpty ==
  finalReport.given =>
    finalReport.success + finalReport.fail = NonEmptyCount(all_records)

C6_Witness ==
  /\ finalReport.given
  /\ finalReport.success > 0
  /\ finalReport.fail > 0
  /\ NonEmptyCount(all_records) < Len(all_records)

\* ---------------------------------------------------------------- C7
\* C7 (as stated): every run that got past Drop & Recreate has flushed the
\* new collection exactly once when it ends.
C7_FlushedOnceAlways ==
  (pc = "done" /\ results.create = "ok" /\ calls.drop > 0) => calls.flush = 1

\* C7 (amended): every run that got past Drop & Recreate with at least one
\* exported record flushes the new collection exactly once, after the last
\* insert call and before the final report of the counts; a run that
\* exported no record does not flush.
C7_FlushedOnceAfterInserts ==
  /\ []((pc = "done" /\ results.create = "ok" /\ calls.drop > 0)
          => calls.flush = (IF all_records # << >> THEN 1 ELSE 0))
  /\ [](calls.flush <= 1)
  /\ [](finalReport.given => calls.flush = 1)
  /\ [][calls'.insert > calls.insert => calls.flush = 0 /\ calls'.flush = 0]_vars
  /\ [][finalReport'.given /\ ~finalReport.given
          => calls.flush = 1 /\ calls'.flush = 1]_vars

C7_Witness ==
  /\ finalReport.given
  /\ calls.insert >= 2
  /\ calls.flush = 1

\* ---------------------------------------------------------------- C8
\* C8: when drop_collection fails (returns False or raises), the run stops:
\* no collection is created, no record is embedded or inserted, and
\* config["embedding_dim"] keeps its value.
C8_DropFailureStops ==
  results.drop \in {"false", "raise"} =>
    /\ pc = "done"
    /\ calls.create = 0
    /\ calls.embed = 0
    /\ calls.insert = 0
    /\ calls.flush = 0
    /\ configDim = initConfigDim
    /\ StoreUntouched

C8_Witness ==
  /\ results.drop = "false"
  /\ pc = "done"
  /\ LastSaid("drop_fail")
  /\ Len(all_records) > 0
  /\ initConfigDim # providerDim

\* ---------------------------------------------------------------- C9
\* C9: when the creation of the new collection fails after the old one was
\* dropped, the run ends with the fatal report, no embedding or insert call
\* is made, and the backup written before stays as it was.
C9_CreateFailureFatal ==
  (results.create = "raise" /\ calls.drop > 0) =>
    /\ pc = "done"
    /\ LastSaid("init_failed")
    /\ calls.embed = 0
    /\ calls.insert = 0
    /\ backup = [state |-> "written", records |-> all_records]
    /\ ~collExists

C9_Witness ==
  /\ results.create = "raise"
  /\ calls.drop = 1
  /\ pc = "done"
  /\ Len(all_records) > 0

\* --------------------------------------------------------------- C10
\* C10: a failed record never stops the re-embed loop.  At every point of
\* the loop every processed record with non-empty content has had its
\* embedding requested and the failure counter equals the number of failed
\* records; a run that entered the loop ends only after all records were
\* processed and flush was called, with the final report unless flush
\* itself raised; and under fair scheduling the loop always leads to the
\* flush call.
C10_FailureNeverStopsLoop ==
  /\ [](embedTried = { k \in 1..i : all_records[k].content # "" })
  /\ [](Len(outcomes) = i)
  /\ [](fail_count = Cardinality({ k \in 1..i : RecordFailed(k) }))
  /\ []((pc = "done" /\ Said("reembedding"))
          => /\ i = Len(all_records)
             /\ calls.flush = 1
             /\ (finalReport.given \/ results.flush = "raise"))
  /\ (pc = "reembed") ~> (calls.flush = 1)
  /\ (results.flush = "ok") ~> finalReport.given

C10_Witness ==
  /\ finalReport.given
  /\ Len(all_records) = 3
  /\ RecordFailed(1)
  /\ outcomes[1][1] = "raise"
  /\ 2 \in embedTried
  /\ 3 \in embedTried
  /\ finalReport.fail = 1

\* --------------------------------------------------------------- C11
\* The exported records whose insert succeeded, in the order of the loop.
RECURSIVE InsertedSources(_)
InsertedSources(k) ==
  IF k = 0 THEN << >>
  ELSE IF all_records[k].content # "" /\ outcomes[k] = << "ok", "ok" >>
       THEN Append(InsertedSources(k - 1), all_records[k])
       ELSE InsertedSources(k - 1)

C12_NoRetry ==
  /\ calls.drop <= 1
  /\ calls.create <= 1
  /\ calls.flush <= 1
  /\ calls.embed = Cardinality(embedTried)
  /\ calls.embed <= i
  /\ calls.insert =
       Cardinality({ k \in 1..i : all_records[k].content # ""
                                   /\ outcomes[k][1] = "ok" })
  /\ (results.drop # "none" => calls.drop = 1)

C12_Witness ==
  /\ pc = "done"
  /\ results.drop = "false"
  /\ calls.drop = 1
  /\ Len(all_records) > 0

(***************************************************************************)
(* Part 2: the other administrative commands of src/core/commands.py:      *)
(* delete_collection_cmd_impl, list_records_cmd_impl and                   *)
(* delete_session_memory_cmd_impl.  One run of one command per behaviour;  *)
(* log records every call the handler makes, in order.                     *)
(***************************************************************************)

\* Greatest number of rows of the collection the commands work on.
MaxRows == 3

\* MAX_TOTAL_FETCH_RECORDS, the ceiling of rows list_records fetches; its
\* value is set outside the files at hand and is scaled down here.
MAX_TOTAL_FETCH_RECORDS == 3

\* Greatest length of a session id handed to a command.
MaxIdLen == 2

\* The upper end of the accepted range of limit.
MaxLimit == 50

\* Characters of session ids: a letter, a blank, a double quote, a semicolon.
IdChars == {"a", " ", "\"", ";"}

SessionStrings == SeqsUpTo(IdChars, MaxIdLen)

\* Rows of the collection as list_records and delete_session see them.
\* time says whether create_time is an integer, None, or absent.
RowPool ==
  { [session_id |-> << "a" >>, time |-> "int", create_time |-> 1],
    [session_id |-> << "a" >>, time |-> "int", create_time |-> 2],
    [session_id |-> << "a", "a" >>, time |-> "int", create_time |-> 3],
    [session_id |-> << "a" >>, time |-> "none", create_time |-> 0],
    [session_id |-> << "a" >>, time |-> "missing", create_time |-> 0] }

\* The store assigns the primary key: here the position in the collection.
WithKeys(rows) ==
  [ k \in 1..Len(rows) |->
      [pk |-> k, session_id |-> rows[k].session_id, time |-> rows[k].time,
       create_time |-> rows[k].create_time] ]

RowSeqs == { WithKeys(rows) : rows \in SeqsUpTo(RowPool, MaxRows) }

\* Values of the argument limit: integers, floats (n is the whole part of
\* n.5), strings (numeric: the digits of n; else not a number), None.
LimitInputs ==
  { [kind |-> "int", n |-> n, numeric |-> TRUE] : n \in {-1, 0, 1, 2, MaxLimit, MaxLimit + 1} }
  \cup { [kind |-> "float", n |-> n, numeric |-> TRUE] : n \in {0, 2} }
  \cup { [kind |-> "str", n |-> 2, numeric |-> TRUE],
         [kind |-> "str", n |-> 0, numeric |-> FALSE],
         [kind |-> "none", n |-> 0, numeric |-> FALSE] }

\* int(limit): integers are kept, floats are truncated, strings of digits
\* are parsed, everything else raises ValueError or TypeError.
IntConv(l) ==
  IF l.kind \in {"int", "float"} THEN [ok |-> TRUE, val |-> l.n]
  ELSE IF l.kind = "str" /\ l.numeric THEN [ok |-> TRUE, val |-> l.n]
  ELSE [ok |-> FALSE, val |-> 0]

\* Mutant: only the lower end of the range is checked.
LimitInRange_NoUpper(n) == ~(n <= 0)

\* limit <= 0 or limit > 50 is the refusal; this is its negation.
LimitInRange(n) == ~(n <= 0 \/ n > MaxLimit)

\* str.strip(chars): leading and trailing characters of chars are removed.
RECURSIVE StripLeft(_, _)
StripLeft(str, chars) ==
  IF str # << >> /\ Head(str) \in chars THEN StripLeft(Tail(str), chars)
  ELSE str

RECURSIVE StripRight(_, _)
StripRight(str, chars) ==
  IF str # << >> /\ str[Len(str)] \in chars
  THEN StripRight(SubSeq(str, 1, Len(str) - 1), chars)
  ELSE str

Strip(str, chars) == StripRight(StripLeft(str, chars), chars)

\* session_id.strip().strip('"`')
SessionIdToDelete(str) == Strip(Strip(str, {" "}), {"\""})

\* not session_id or not session_id.strip()
SessionMissing(str) == str = << >> \/ Strip(str, {" "}) = << >>

\* validate_session_id: the id is not empty and made of allowed characters.
AllowedIdChars == {"a"}

ValidSessionId(str) ==
  str # << >> /\ \A k \in 1..Len(str) : str[k] \in AllowedIdChars

\* safe_build_milvus_expression("session_id", value, "=="): the expression,
\* or ValueError for a value that is not allowed.
BuildExpression(value) ==
  IF ValidSessionId(value)
  THEN [ok |-> TRUE, expr |-> [kind |-> "session", value |-> value]]
  ELSE [ok |-> FALSE, expr |-> NoExpr]

\* f"{PRIMARY_FIELD_NAME} >= 0"
AllRowsExpr == [kind |-> "all", value |-> << >>]

\* The rows an expression selects.
Matches(row, e) == e.kind = "all" \/ (e.kind = "session" /\ row.session_id = e.value)

RECURSIVE Select(_, _)
Select(rows, e) ==
  IF rows = << >> THEN << >>
  ELSE IF Matches(Head(rows), e) THEN << Head(rows) >> \o Select(Tail(rows), e)
  ELSE Select(Tail(rows), e)

\* query(expression, limit) on success: the first limit matching rows.
QueryFilter(rows, e, limit) ==
  LET m == Select(rows, e) IN SubSeq(m, 1, Min(limit, Len(m)))

\* delete(expression) on success: the rows that stay.
RECURSIVE Remaining(_, _)
Remaining(rows, e) ==
  IF rows = << >> THEN << >>
  ELSE IF Matches(Head(rows), e) THEN Remaining(Tail(rows), e)
  ELSE << Head(rows) >> \o Remaining(Tail(rows), e)

\* Outcomes of milvus_manager.delete: a result, a falsy result, an exception.
DeleteOutcomes == {"ok", "none", "raise"}

\* Mutant: a missing create_time is not replaced by 0 but sorts as newest.
SortKey_MissingNewest(row) == IF row.time = "int" THEN row.create_time ELSE 99

\* key=lambda x: x.get("create_time", 0) or 0
SortKey(row) == IF row.time = "int" THEN row.create_time ELSE 0

\* list.sort(key=..., reverse=True): descending by key, rows of equal key
\* keep their order.
RECURSIVE InsertDesc(_, _)
InsertDesc(sorted, row) ==
  IF sorted = << >> THEN << row >>
  ELSE IF SortKey(Head(sorted)) >= SortKey(row)
       THEN << Head(sorted) >> \o InsertDesc(Tail(sorted), row)
       ELSE << row >> \o sorted

RECURSIVE SortDesc(_)
SortDesc(rows) ==
  IF rows = << >> THEN << >>
  ELSE InsertDesc(SortDesc(SubSeq(rows, 1, Len(rows) - 1)), rows[Len(rows)])

\* fetched_records[:limit]
Truncate(rows, limit) == SubSeq(rows, 1, Min(limit, Len(rows)))

\* Mutant: any non-empty token confirms.
Confirmed_Truthy(c) == c # "none"

\* confirm != "--confirm" is the refusal; this is its negation.
Confirmed(c) == c = "--confirm"

\* Mutant: a rejected session id is only logged.
AfterValidate_Ignored(ok) == "go_on"

\* What a handler does after validate_session_id: go on, or return.
AfterValidate(ok) == IF ok THEN "go_on" ELSE "done"

\* Mutant: a failed flush is tried again.
AfterFlush_Retry(res) == IF res = "ok" THEN "done" ELSE "ds_flush"

\* Where delete_session goes after flush: it returns in both cases.
AfterFlush(res) == "done"

\* Mutant: the check of the connection is left out.
Reachable_Unchecked(c) == TRUE

\* not self.milvus_manager or not is_connected() is the refusal; this is
\* its negation.
Reachable(c) == c

Call(name) == log' = Append(log, name)

\* What the other commands never touch: the state of the migration.
migOnlyVars == << force, milvus, providerReady, providerDim, schemaReadable,
                  pluginDataDir, collDim, initRecords, initExists, configDim,
                  old_dim, backup, all_records, offset, i, success_count,
                  fail_count, calls, results, embedTried, outcomes,
                  initConfigDim, finalReport, tagVars, trackerVars >>

cmdInputs == << cmd, connected, confirm, sessionArg, limitArg >>

\* The state of the migration while another command runs.
MigIdle ==
  /\ force = "none"
  /\ milvus = IF connected THEN "connected" ELSE "none"
  /\ providerDim = 1
  /\ schemaReadable = TRUE
  /\ pluginDataDir = TRUE
  /\ collDim = 1
  /\ configDim = 1
  /\ initConfigDim = 1
  /\ old_dim = 0
  /\ backup = [state |-> "none", records |-> << >>]
  /\ all_records = << >>
  /\ offset = 0
  /\ i = 0
  /\ success_count = 0
  /\ fail_count = 0
  /\ calls = NoCalls
  /\ results = NoResults
  /\ embedTried = {}
  /\ outcomes = << >>
  /\ finalReport = NoReport

\* One command is invoked.  The rows of the collection are enumerated for
\* the runs that reach the store; the embedding provider is an input of the
\* commands that write.
CmdInit ==
  /\ cmd \in {"drop_collection", "list_records", "delete_session"}
  /\ connected \in BOOLEAN
  /\ providerReady \in BOOLEAN
  /\ confirm \in {"none", "--confirm", "other"}
  /\ sessionArg \in SessionStrings
  /\ limitArg \in (IF cmd = "list_records" THEN LimitInputs ELSE {DefaultLimit})
  /\ collExists \in BOOLEAN
  /\ collRecords \in RowSeqs
  /\ (~collExists \/ ~connected => collRecords = << >>)
  /\ (cmd = "drop_collection" => sessionArg = << >>)
  /\ (cmd = "list_records" => confirm = "none" /\ providerReady)
  /\ initRecords = collRecords
  /\ initExists = collExists
  /\ pc = IF cmd = "drop_collection" THEN "dc_check"
          ELSE IF cmd = "list_records" THEN "lr_check" ELSE "ds_check"
  /\ log = << >>
  /\ expr = NoExpr
  /\ fetched = << >>
  /\ display = << >>
  /\ out = << >>
  /\ MigIdle
  /\ TagIdle
  /\ TrackerIdle

\* --- delete_collection_cmd_impl
\* Lines 55-72: connection and confirmation.
DC_Check ==
  /\ cmd = "drop_collection" /\ pc = "dc_check"
  /\ IF ~Reachable(connected) THEN Stop("no_milvus")
     ELSE IF ~Confirmed(confirm) THEN Stop("need_confirm")
     ELSE pc' = "dc_drop" /\ out' = out
  /\ UNCHANGED << migOnlyVars, cmdInputs, collExists, collRecords, log, expr,
                  fetched, display >>

\* Lines 74-103: the drop and its report.
DC_Drop ==
  /\ cmd = "drop_collection" /\ pc = "dc_drop"
  /\ Call("drop")
  /\ \E res \in DropOutcomes :
       /\ IF res = "true"
          THEN collExists' = FALSE /\ collRecords' = << >>
          ELSE UNCHANGED << collExists, collRecords >>
       /\ Stop(IF res = "true" THEN "dropped"
               ELSE IF res = "false" THEN "drop_fail" ELSE "fatal_error")
  /\ UNCHANGED << migOnlyVars, cmdInputs, expr, fetched, display >>

\* --- list_records_cmd_impl
\* Lines 113-139: connection, int(limit), range of limit.
LR_Check ==
  /\ cmd = "list_records" /\ pc = "lr_check"
  /\ IF ~Reachable(connected) THEN Stop("no_milvus")
     ELSE IF ~IntConv(limitArg).ok THEN Stop("limit_not_int")
     ELSE IF ~LimitInRange(IntConv(limitArg).val) THEN Stop("limit_out_of_range")
     ELSE pc' = "lr_has" /\ out' = out
  /\ UNCHANGED << migOnlyVars, cmdInputs, collExists, collRecords, log, expr,
                  fetched, display >>

\* Lines 141-144 (301-307 when has_collection raises).
LR_HasCollection ==
  /\ cmd = "list_records" /\ pc = "lr_has"
  /\ Call("has_collection")
  /\ \E res \in {"ok", "raise"} :
       IF res = "raise" THEN Stop("internal_error")
       ELSE IF ~collExists THEN Stop("no_collection")
       ELSE pc' = "lr_expr" /\ out' = out
  /\ UNCHANGED << migOnlyVars, cmdInputs, collExists, collRecords, expr,
                  fetched, display >>

\* Lines 146-170: validation of the session id and the filter expression.
LR_BuildExpr ==
  /\ cmd = "list_records" /\ pc = "lr_expr"
  /\ IF sessionArg # << >>
     THEN IF AfterValidate(ValidSessionId(sessionArg)) = "done"
          THEN /\ Call("validate")
               /\ Stop("bad_session")
               /\ expr' = expr
          ELSE LET b == BuildExpression(sessionArg)
               IN /\ log' = log \o << "validate", "build_expr" >>
                  /\ expr' = b.expr
                  /\ IF b.ok THEN pc' = "lr_query" /\ out' = out
                     ELSE Stop("expr_fail")
     ELSE /\ expr' = AllRowsExpr
          /\ pc' = "lr_query"
          /\ UNCHANGED << log, out >>
  /\ UNCHANGED << migOnlyVars, cmdInputs, collExists, collRecords, fetched,
                  display >>

\* Lines 196-307: the query, the sort, the truncation and the report.
LR_Query ==
  /\ cmd = "list_records" /\ pc = "lr_query"
  /\ Call("query")
  /\ \E res \in QueryOutcomes :
       IF res = "none" THEN Stop("query_failed") /\ UNCHANGED << fetched, display >>
       ELSE IF res = "raise"
       THEN Stop("internal_error") /\ UNCHANGED << fetched, display >>
       ELSE LET fetched_records ==
                  QueryFilter(collRecords, expr, MAX_TOTAL_FETCH_RECORDS)
            IN IF fetched_records = << >>
               THEN Stop("no_records") /\ UNCHANGED << fetched, display >>
               ELSE /\ fetched' = SortDesc(fetched_records)
                    /\ display' = Truncate(fetched', IntConv(limitArg).val)
                    /\ pc' = "done"
                    /\ out' = IF Len(fetched_records) >= MAX_TOTAL_FETCH_RECORDS
                              THEN out \o << "ceiling_warning", "records" >>
                              ELSE Append(out, "records")
  /\ UNCHANGED << migOnlyVars, cmdInputs, collExists, collRecords, expr >>

\* --- delete_session_memory_cmd_impl
\* Lines 317-358: connection, session id, validation, confirmation and the
\* filter expression.
DS_Check ==
  /\ cmd = "delete_session" /\ pc = "ds_check"
  /\ IF ~Reachable(connected)
     THEN Stop("no_milvus") /\ UNCHANGED << log, expr >>
     ELSE IF SessionMissing(sessionArg)
     THEN Stop("need_session") /\ UNCHANGED << log, expr >>
     ELSE LET session_id_to_delete == SessionIdToDelete(sessionArg)
          IN IF AfterValidate(ValidSessionId(session_id_to_delete)) = "done"
             THEN Call("validate") /\ Stop("bad_session") /\ expr' = expr
             ELSE IF ~Confirmed(confirm)
             THEN Call("validate") /\ Stop("need_confirm") /\ expr' = expr
             ELSE LET b == BuildExpression(session_id_to_delete)
                  IN /\ log' = log \o << "validate", "build_expr" >>
                     /\ expr' = b.expr
                     /\ IF b.ok THEN pc' = "ds_delete" /\ out' = out
                        ELSE Stop("expr_fail")
  /\ UNCHANGED << migOnlyVars, cmdInputs, collExists, collRecords, fetched,
                  display >>

\* Lines 360-372 and 390-400: the delete call.
DS_Delete ==
  /\ cmd = "delete_session" /\ pc = "ds_delete"
  /\ Call("delete")
  /\ \E res \in DeleteOutcomes :
       IF res = "ok"
       THEN /\ collRecords' = Remaining(collRecords, expr)
            /\ pc' = "ds_flush"
            /\ out' = out
       ELSE /\ collRecords' = collRecords
            /\ Stop(IF res = "none" THEN "delete_failed" ELSE "fatal_error")
  /\ UNCHANGED << migOnlyVars, cmdInputs, collExists, expr, fetched, display >>

\* Lines 373-389: the flush after the delete and the report.
DS_Flush ==
  /\ cmd = "delete_session" /\ pc = "ds_flush"
  /\ Call("flush")
  /\ \E res \in FlushOutcomes :
       /\ out' = Append(out, IF res = "ok" THEN "deleted" ELSE "flush_error")
       /\ pc' = AfterFlush(res)
  /\ UNCHANGED << migOnlyVars, cmdInputs, collExists, collRecords, expr,
                  fetched, display >>

CmdNext ==
  \/ DC_Check
  \/ DC_Drop
  \/ LR_Check
  \/ LR_HasCollection
  \/ LR_BuildExpr
  \/ LR_Query
  \/ DS_Check
  \/ DS_Delete
  \/ DS_Flush

CmdSpec == CmdInit /\ [][CmdNext]_vars

\* ======================================================================
\* Part 3: the retention of memory blocks, tools.remove_mnemosyne_tags.
\* A text is a sequence of tokens.  The opening tag <Mnemosyne> is the two
\* tokens "<" and "M>" (for "Mnemosyne>"), the closing tag </Mnemosyne> the
\* two tokens "</" and "M>", so that a tag can be cut in two by other text;
\* the other tokens are characters of other text.
\* ======================================================================

\* Greatest number of messages of a context.
MaxMessages == 2

\* Greatest number of pieces a message text is put together from.
MaxPieces == 2

\* Greatest retention budget.
MaxK == 2

OpenTag == << "<", "M>" >>

CloseTag == << "</", "M>" >>

\* The block whose inner text is the character c.
Block(c) == OpenTag \o << c >> \o CloseTag

\* What message texts are made of: the block of A, the block of B, other
\* text, an opening tag that is never closed by itself, an opening tag cut
\* in two by the block of A, and text followed by a closing tag.
PiecePool ==
  { Block("A"), Block("B"), << "t" >>, OpenTag,
    << "<" >> \o Block("A") \o << "M>" >>,
    << "t" >> \o CloseTag }

RECURSIVE Concat(_)
Concat(pieces) ==
  IF pieces = << >> THEN << >> ELSE Head(pieces) \o Concat(Tail(pieces))

TextPool == { Concat(pieces) : pieces \in SeqsUpTo(PiecePool, MaxPieces) }

\* A message: role, kind of its content ("str": plain text, "list": a
\* multi-part payload, whose text part is content), content, and extra:
\* whether the dict carries a key besides role and content.
Message(role, kind, content, extra) ==
  [role |-> role, kind |-> kind, content |-> content, extra |-> extra]

MessagePool ==
  { Message("user", "str", txt, FALSE) : txt \in TextPool }
  \cup { Message("user", "str", Block("A"), TRUE),
         Message("user", "list", Block("A"), FALSE),
         Message("user", "list", Block("A"), TRUE),
         Message("assistant", "str", Block("A"), FALSE) }

\* The budgets tried: negative, zero and positive ones.
Budgets == (-MaxK)..MaxK

\* --- re.compile(r"<Mnemosyne>.*?</Mnemosyne>", re.DOTALL)
\* Least index at or after from where tag starts in text, 0 if there is
\* none.
RECURSIVE IndexFrom(_, _, _)
IndexFrom(txt, tag, from) ==
  IF from + Len(tag) - 1 > Len(txt) THEN 0
  ELSE IF SubSeq(txt, from, from + Len(tag) - 1) = tag THEN from
  ELSE IndexFrom(txt, tag, from + 1)

\* The leftmost match at or after from, as << first, last >> index: it
\* starts at the first opening tag and, .*? being lazy, ends with the first
\* closing tag after that tag.  << 0, 0 >>: no match.
MatchFrom(txt, from) ==
  LET o == IndexFrom(txt, OpenTag, from)
  IN IF o = 0 THEN << 0, 0 >>
     ELSE LET c == IndexFrom(txt, CloseTag, o + Len(OpenTag))
          IN IF c = 0 THEN << 0, 0 >> ELSE << o, c + Len(CloseTag) - 1 >>

\* compiled_regex.search(text)
Search(txt) == MatchFrom(txt, 1)[1] # 0

RECURSIVE FindAllFrom(_, _)
FindAllFrom(txt, from) ==
  LET m == MatchFrom(txt, from)
  IN IF m[1] = 0 THEN << >>
     ELSE << SubSeq(txt, m[1], m[2]) >> \o FindAllFrom(txt, m[2] + 1)

\* compiled_regex.findall(text): the matches, left to right.
FindAll(txt) == FindAllFrom(txt, 1)

RECURSIVE SubFrom(_, _, _)
SubFrom(txt, from, keep) ==
  LET m == MatchFrom(txt, from)
  IN IF m[1] = 0 THEN SubSeq(txt, from, Len(txt))
     ELSE LET block == SubSeq(txt, m[1], m[2])
          IN SubSeq(txt, from, m[1] - 1)
               \o (IF block \in keep THEN block ELSE << >>)
               \o SubFrom(txt, m[2] + 1, keep)

\* compiled_regex.sub(replace_logic, text): each match is replaced by
\* itself if it is in keep and by "" otherwise.
Sub(txt, keep) == SubFrom(txt, 1, keep)

\* --- remove_mnemosyne_tags
\* Mutant: every message is taken for a user message.
IsUser_Any(content_item) == TRUE

IsUser(content_item) == content_item.role = "user"

\* Lines 77-83: the blocks of the user messages with plain text, in order.
RECURSIVE AllMnemosyneBlocks(_)
AllMnemosyneBlocks(items) ==
  IF items = << >> THEN << >>
  ELSE (IF IsUser(Head(items)) /\ Head(items).kind = "str"
        THEN FindAll(Head(items).content) ELSE << >>)
         \o AllMnemosyneBlocks(Tail(items))

\* Mutant: the leading slice is taken for the trailing one.
Slice_Leading(list, n) == SubSeq(list, 1, Min(n, Len(list)))

\* list[-n:] for n > 0.
Slice(list, n) ==
  SubSeq(list, IF Len(list) > n THEN Len(list) - n + 1 ELSE 1, Len(list))

\* Mutant: every block found is kept.
BlocksToKeep_All(items, K) ==
  LET found == AllMnemosyneBlocks(items)
  IN { found[j] : j \in 1..Len(found) }

\* Line 85: set(all_mnemosyne_blocks[-contexts_memory_len:])
BlocksToKeep(items, K) ==
  LET kept == Slice(AllMnemosyneBlocks(items), K)
  IN { kept[j] : j \in 1..Len(kept) }

\* {"role": "user", "content": ...}: a new dict of these two keys.
NewUserItem(kind, content) == Message("user", kind, content, FALSE)

\* Mutant: only the first block of a text is erased.
EraseAll_FirstOnly(original_text) ==
  LET m == MatchFrom(original_text, 1)
  IN IF m[1] = 0 THEN original_text
     ELSE SubSeq(original_text, 1, m[1] - 1)
            \o SubSeq(original_text, m[2] + 1, Len(original_text))

\* compiled_regex.sub("", original_text)
EraseAll(original_text) == Sub(original_text, {})

\* Lines 64-75, one item under contexts_memory_len == 0.
CleanAll(content_item) ==
  IF IsUser(content_item) /\ content_item.kind = "str"
  THEN NewUserItem("str", EraseAll(content_item.content))
  ELSE content_item

\* Lines 91-119, one item under contexts_memory_len > 0.
CleanKeeping(content_item, blocks_to_keep) ==
  IF ~IsUser(content_item) THEN content_item
  ELSE IF content_item.kind = "list"
  THEN NewUserItem("list", content_item.content)
  ELSE IF Search(content_item.content)
  THEN NewUserItem("str", Sub(content_item.content, blocks_to_keep))
  ELSE content_item

remove_mnemosyne_tags(items, K) ==
  IF K < 0 THEN items
  ELSE IF K = 0 THEN [ p \in 1..Len(items) |-> CleanAll(items[p]) ]
  ELSE LET blocks_to_keep == BlocksToKeep(items, K)
       IN [ p \in 1..Len(items) |-> CleanKeeping(items[p], blocks_to_keep) ]

\* --- remove_system_mnemosyne_tags (text is a str)
\* Mutant: a negative budget erases like the budget 0.
remove_system_mnemosyne_tags_NegativeErases(original_text, K) ==
  IF K <= 0 THEN EraseAll(original_text)
  ELSE LET blocks == Slice(FindAll(original_text), K)
       IN Sub(original_text, { blocks[j] : j \in 1..Len(blocks) })

remove_system_mnemosyne_tags(original_text, K) ==
  IF K < 0 THEN original_text
  ELSE IF K = 0 THEN EraseAll(original_text)
  ELSE LET all_mnemosyne_blocks == FindAll(original_text)
           kept == Slice(all_mnemosyne_blocks, K)
           blocks_to_keep == { kept[j] : j \in 1..Len(kept) }
       IN IF Search(original_text) THEN Sub(original_text, blocks_to_keep)
          ELSE original_text

\* --- remove_system_content (contents is a list of dicts)
\* Greatest number of messages of a context handed to remove_system_content.
MaxSystemContext == 3

SystemContextPool ==
  { Message("system", "str", << "t" >>, FALSE),
    Message("system", "str", Block("A"), FALSE),
    Message("user", "str", << "t" >>, FALSE),
    Message("assistant", "str", << "t" >>, FALSE) }

\* Lines 167-171: the indices of the system messages, ascending.
RECURSIVE SystemMessageIndices(_, _)
SystemMessageIndices(items, from) ==
  IF from > Len(items) THEN << >>
  ELSE (IF items[from].role = "system" THEN << from >> ELSE << >>)
         \o SystemMessageIndices(items, from + 1)

\* Mutant: the newest system messages are removed instead of the oldest.
IndicesToRemove_Newest(items, K) ==
  LET system_message_indices == SystemMessageIndices(items, 1)
      num_system_messages == Len(system_message_indices)
  IN IF num_system_messages > K
     THEN { system_message_indices[j] : j \in (K + 1)..num_system_messages }
     ELSE {}

\* Lines 172-177.
IndicesToRemove(items, K) ==
  LET system_message_indices == SystemMessageIndices(items, 1)
      num_system_messages == Len(system_message_indices)
  IN IF num_system_messages > K
     THEN { system_message_indices[j] : j \in 1..(num_system_messages - K) }
     ELSE {}

\* Lines 179-181: the messages whose index is not in removed, in order.
RECURSIVE KeepOthers(_, _, _)
KeepOthers(items, removed, from) ==
  IF from > Len(items) THEN << >>
  ELSE (IF from \in removed THEN << >> ELSE << items[from] >>)
         \o KeepOthers(items, removed, from + 1)

remove_system_content(items, K) ==
  IF K < 0 THEN items
  ELSE KeepOthers(items, IndicesToRemove(items, K), 1)

\* One call of one of the three retention operations.
TagInit ==
  /\ cmd \in {"remove_tags", "remove_system_tags", "remove_system_content"}
  /\ pc = "rt_call"
  /\ contents \in (IF cmd = "remove_tags"
                    THEN SeqsUpTo(MessagePool, MaxMessages)
                    ELSE IF cmd = "remove_system_content"
                    THEN SeqsUpTo(SystemContextPool, MaxSystemContext)
                    ELSE { << >> })
  /\ text \in (IF cmd = "remove_system_tags" THEN TextPool ELSE { << >> })
  /\ contexts_memory_len \in Budgets
  /\ cleaned_contents = << >>
  /\ cleaned_text = << >>
  /\ connected = FALSE
  /\ providerReady = TRUE
  /\ confirm = "none"
  /\ sessionArg = << >>
  /\ limitArg = DefaultLimit
  /\ collExists = FALSE
  /\ collRecords = << >>
  /\ initRecords = << >>
  /\ initExists = FALSE
  /\ log = << >>
  /\ expr = NoExpr
  /\ fetched = << >>
  /\ display = << >>
  /\ out = << >>
  /\ MigIdle
  /\ TrackerIdle

\* What the retention operations never touch.
outsideTagVars == << force, milvus, providerReady, providerDim, schemaReadable,
                     pluginDataDir, collDim, initRecords, initExists,
                     configDim, old_dim, backup, all_records, offset, i,
                     success_count, fail_count, calls, results, embedTried,
                     outcomes, initConfigDim, finalReport, cmdVars,
                     collExists, collRecords, out, trackerVars >>

RemoveMnemosyneTags ==
  /\ cmd = "remove_tags" /\ pc = "rt_call"
  /\ cleaned_contents' = remove_mnemosyne_tags(contents, contexts_memory_len)
  /\ pc' = "done"
  /\ UNCHANGED << outsideTagVars, contents, contexts_memory_len, text,
                  cleaned_text >>

RemoveSystemMnemosyneTags ==
  /\ cmd = "remove_system_tags" /\ pc = "rt_call"
  /\ cleaned_text' = remove_system_mnemosyne_tags(text, contexts_memory_len)
  /\ pc' = "done"
  /\ UNCHANGED << outsideTagVars, contents, contexts_memory_len, text,
                  cleaned_contents >>

RemoveSystemContent ==
  /\ cmd = "remove_system_content" /\ pc = "rt_call"
  /\ cleaned_contents' = remove_system_content(contents, contexts_memory_len)
  /\ pc' = "done"
  /\ UNCHANGED << outsideTagVars, contents, contexts_memory_len, text,
                  cleaned_text >>

TagNext ==
  \/ RemoveMnemosyneTags
  \/ RemoveSystemMnemosyneTags
  \/ RemoveSystemContent

TagSpec == TagInit /\ [][TagNext]_vars

\* ======================================================================
\* Part 4: the session tracker, memory_manager.context_manager.
\* Threads call the methods of one ConversationContextManager; every method
\* body runs inside `with self._lock`.
\* ======================================================================

\* Greatest number of calls one thread makes.
MaxCalls == 2

\* Greatest value of the clock.
MaxClock == 3

Sessions == {"s1", "s2"}

Ops == {"init_conv", "add_message", "get_summary_time",
        "update_summary_time", "get_session_context"}

\* --- self.conversations: a dict is the set of its items, one per key
\* that was assigned.  An item: the key session_id, whether the dict of the
\* session has the keys "event" and "last_summary_time", and that time.
Item(sid, event, stamped, time) ==
  [session_id |-> sid, event |-> event, stamped |-> stamped,
   last_summary_time |-> time]

\* session_id in self.conversations
Has(conv, sid) == \E e \in conv : e.session_id = sid

\* self.conversations[session_id]
Get(conv, sid) == CHOOSE e \in conv : e.session_id = sid

\* Mutant: an assignment adds an item and leaves the old one of the key.
Put_Added(conv, item) == conv \cup {item}

\* self.conversations[session_id] = ...: the item of the key is replaced.
Put(conv, item) ==
  { e \in conv : e.session_id # item.session_id } \cup {item}

\* Mutant: the lock is never waited for.
LockFree_Ignored(owner) == TRUE

\* `with self._lock` goes on when no other thread holds the lock.
LockFree(owner) == owner = 0

\* Mutant: init_conv builds the entry whether or not there is one.
AfterInitCheck_Rebuild(exists) == "ic_create"

\* Mutant: init_conv stores its event and the time in the entry it finds.
AfterInitCheck_Refresh(exists) == IF exists THEN "ic_event" ELSE "ic_create"

\* Lines 30-31: init_conv returns when the session has an entry.
AfterInitCheck(exists) == IF exists THEN "release" ELSE "ic_create"

\* Mutant: update_summary_time makes the entry of an unknown session.
Touched_Creates(conv, sid, time) ==
  Put(conv, Item(sid, IF Has(conv, sid) THEN Get(conv, sid).event ELSE FALSE,
                 TRUE, time))

\* Lines 75-76: update_summary_time.
Touched(conv, sid, time) ==
  IF Has(conv, sid)
  THEN Put(conv, Item(sid, Get(conv, sid).event, TRUE, time))
  ELSE conv

\* Mutant: add_message stamps the entry of a known session again.
Ensured_Restamps(conv, sid, time) ==
  Put(conv, Item(sid, IF Has(conv, sid) THEN Get(conv, sid).event ELSE FALSE,
                 TRUE, time))

\* Lines 49-53: add_message.
Ensured(conv, sid, time) ==
  IF ~Has(conv, sid) THEN Put(conv, Item(sid, FALSE, TRUE, time)) ELSE conv

\* Lines 65-68: get_summary_time; the subscript raises KeyError when the
\* dict of the session has no "last_summary_time".
SummaryTime(conv, sid) ==
  IF Has(conv, sid)
  THEN IF Get(conv, sid).stamped
       THEN [kind |-> "time", time |-> Get(conv, sid).last_summary_time]
       ELSE [kind |-> "raise", time |-> 0]
  ELSE [kind |-> "time", time |-> 0]

\* --- the calls applied one at a time, each as a whole
SeqApply(conv, op, sid, time) ==
  IF op = "init_conv"
  THEN IF Has(conv, sid) THEN conv
       ELSE conv \cup { Item(sid, TRUE, TRUE, time) }
  ELSE IF op = "add_message"
  THEN IF Has(conv, sid) THEN conv
       ELSE conv \cup { Item(sid, FALSE, TRUE, time) }
  ELSE IF op = "update_summary_time"
  THEN { IF e.session_id = sid
         THEN Item(sid, e.event, TRUE, time) ELSE e : e \in conv }
  ELSE conv

\* What the tracker never touches.
outsideTrackerVars == << cmdVars, tagVars, pc, force, milvus, providerReady,
                         providerDim, schemaReadable, pluginDataDir,
                         collExists, collDim, collRecords, initRecords,
                         initExists, configDim, old_dim, backup, all_records,
                         offset, i, success_count, fail_count, calls, results,
                         embedTried, outcomes, initConfigDim, out,
                         finalReport >>

\* Line 17-23: the tracker after __init__, and threads about to call it.
TrackerInit ==
  /\ cmd = "tracker"
  /\ pc = "tracker"
  /\ conversations = {}
  /\ lockOwner = 0
  /\ tpc = [t \in Threads |-> "idle"]
  /\ call = [t \in Threads |-> NoCall]
  /\ ret = [t \in Threads |-> NoReturn]
  /\ now = 1
  /\ callsLeft = [t \in Threads |-> MaxCalls]
  /\ seqMap = {}
  /\ connected = FALSE
  /\ providerReady = TRUE
  /\ confirm = "none"
  /\ sessionArg = << >>
  /\ limitArg = DefaultLimit
  /\ collExists = FALSE
  /\ collRecords = << >>
  /\ initRecords = << >>
  /\ initExists = FALSE
  /\ log = << >>
  /\ expr = NoExpr
  /\ fetched = << >>
  /\ display = << >>
  /\ out = << >>
  /\ MigIdle
  /\ TagIdle

FirstStep(op) ==
  IF op = "init_conv" THEN "ic_check"
  ELSE IF op = "add_message" THEN "am_check"
  ELSE IF op = "get_summary_time" THEN "gs_read"
  ELSE IF op = "update_summary_time" THEN "us_write"
  ELSE "gc_read"

\* A thread calls a method.
CallOp(t) ==
  /\ cmd = "tracker" /\ tpc[t] = "idle" /\ callsLeft[t] > 0
  /\ \E op \in Ops, sid \in Sessions :
       call' = [call EXCEPT ![t] = [op |-> op, session_id |-> sid]]
  /\ tpc' = [tpc EXCEPT ![t] = "acquire"]
  /\ callsLeft' = [callsLeft EXCEPT ![t] = @ - 1]
  /\ ret' = [ret EXCEPT ![t] = NoReturn]
  /\ UNCHANGED << outsideTrackerVars, conversations, lockOwner, now, seqMap >>

\* with self._lock: the thread enters when the lock is free.
Acquire(t) ==
  /\ tpc[t] = "acquire"
  /\ LockFree(lockOwner)
  /\ lockOwner' = t
  /\ tpc' = [tpc EXCEPT ![t] = FirstStep(call[t].op)]
  /\ UNCHANGED << outsideTrackerVars, conversations, call, ret, now,
                  callsLeft, seqMap >>

\* The end of the with block: the lock is released and the method returns.
Release(t) ==
  /\ tpc[t] = "release"
  /\ lockOwner' = 0
  /\ tpc' = [tpc EXCEPT ![t] = "idle"]
  /\ UNCHANGED << outsideTrackerVars, conversations, call, ret, now,
                  callsLeft, seqMap >>

\* Lines 30-31 of init_conv.
InitConvCheck(t) ==
  /\ tpc[t] = "ic_check"
  /\ LET next == AfterInitCheck(Has(conversations, call[t].session_id))
     IN /\ tpc' = [tpc EXCEPT ![t] = next]
        /\ seqMap' = IF next = "release"
                     THEN SeqApply(seqMap, "init_conv", call[t].session_id, now)
                     ELSE seqMap
  /\ UNCHANGED << outsideTrackerVars, conversations, lockOwner, call, ret,
                  now, callsLeft >>

\* Line 32: self.conversations[session_id] = {}
InitConvCreate(t) ==
  /\ tpc[t] = "ic_create"
  /\ conversations' = Put(conversations, Item(call[t].session_id, FALSE, FALSE, 0))
  /\ tpc' = [tpc EXCEPT ![t] = "ic_event"]
  /\ UNCHANGED << outsideTrackerVars, lockOwner, call, ret, now, callsLeft,
                  seqMap >>

\* Line 35: self.conversations[session_id]["event"] = event
InitConvEvent(t) ==
  /\ tpc[t] = "ic_event"
  /\ LET e == Get(conversations, call[t].session_id)
     IN conversations' =
          Put(conversations, Item(e.session_id, TRUE, e.stamped, e.last_summary_time))
  /\ tpc' = [tpc EXCEPT ![t] = "ic_time"]
  /\ UNCHANGED << outsideTrackerVars, lockOwner, call, ret, now, callsLeft,
                  seqMap >>

\* Line 37: self.conversations[session_id]["last_summary_time"] = time.time()
InitConvTime(t) ==
  /\ tpc[t] = "ic_time"
  /\ LET e == Get(conversations, call[t].session_id)
     IN conversations' = Put(conversations, Item(e.session_id, e.event, TRUE, now))
  /\ seqMap' = SeqApply(seqMap, "init_conv", call[t].session_id, now)
  /\ tpc' = [tpc EXCEPT ![t] = "release"]
  /\ UNCHANGED << outsideTrackerVars, lockOwner, call, ret, now, callsLeft >>

\* Lines 48-58: add_message.
AddMessage(t) ==
  /\ tpc[t] = "am_check"
  /\ conversations' = Ensured(conversations, call[t].session_id, now)
  /\ seqMap' = SeqApply(seqMap, "add_message", call[t].session_id, now)
  /\ tpc' = [tpc EXCEPT ![t] = "release"]
  /\ UNCHANGED << outsideTrackerVars, lockOwner, call, ret, now, callsLeft >>

\* Lines 64-68: get_summary_time.
GetSummaryTime(t) ==
  /\ tpc[t] = "gs_read"
  /\ ret' = [ret EXCEPT ![t] = SummaryTime(conversations, call[t].session_id)]
  /\ tpc' = [tpc EXCEPT ![t] = "release"]
  /\ UNCHANGED << outsideTrackerVars, conversations, lockOwner, call, now,
                  callsLeft, seqMap >>

\* Lines 74-76: update_summary_time.
UpdateSummaryTime(t) ==
  /\ tpc[t] = "us_write"
  /\ conversations' = Touched(conversations, call[t].session_id, now)
  /\ seqMap' = SeqApply(seqMap, "update_summary_time", call[t].session_id, now)
  /\ tpc' = [tpc EXCEPT ![t] = "release"]
  /\ UNCHANGED << outsideTrackerVars, lockOwner, call, ret, now, callsLeft >>

\* Lines 95-99: get_session_context hands out the dict of the session, or {}.
GetSessionContext(t) ==
  /\ tpc[t] = "gc_read"
  /\ ret' = [ret EXCEPT ![t] =
               [kind |-> IF Has(conversations, call[t].session_id)
                         THEN "context" ELSE "empty",
                time |-> 0]]
  /\ tpc' = [tpc EXCEPT ![t] = "release"]
  /\ UNCHANGED << outsideTrackerVars, conversations, lockOwner, call, now,
                  callsLeft, seqMap >>

\* time.time() moves on.
Tick ==
  /\ cmd = "tracker" /\ now < MaxClock
  /\ now' = now + 1
  /\ UNCHANGED << outsideTrackerVars, conversations, lockOwner, tpc, call,
                  ret, callsLeft, seqMap >>

TrackerNext ==
  \/ \E t \in Threads : CallOp(t)
  \/ \E t \in Threads : Acquire(t)
  \/ \E t \in Threads : Release(t)
  \/ \E t \in Threads : InitConvCheck(t)
  \/ \E t \in Threads : InitConvCreate(t)
  \/ \E t \in Threads : InitConvEvent(t)
  \/ \E t \in Threads : InitConvTime(t)
  \/ \E t \in Threads : AddMessage(t)
  \/ \E t \in Threads : GetSummaryTime(t)
  \/ \E t \in Threads : UpdateSummaryTime(t)
  \/ \E t \in Threads : GetSessionContext(t)
  \/ Tick

TrackerSpec == TrackerInit /\ [][TrackerNext]_vars

\* Every command of the plugin: one invocation of one of them.
Init == MigInit \/ CmdInit \/ TagInit \/ TrackerInit

Next == MigNext \/ CmdNext \/ TagNext \/ TrackerNext

Spec == Init /\ [][Next]_vars

\* ------------------------------------------------- vocabulary of the log
Called(name) == \E k \in 1..Len(log) : log[k] = name

TimesCalled(name) == Cardinality({ k \in 1..Len(log) : log[k] = name })

StoreCalls == {"has_collection", "query", "delete", "flush", "drop"}

MutatingCalls == {"drop", "delete", "flush"}

NoMutatingCall == \A k \in 1..Len(log) : log[k] \notin MutatingCalls

CmdStoreUntouched == collExists = initExists /\ collRecords = initRecords

\* --------------------------------------------------------------- C13
\* C13: delete_collection calls drop_collection only when confirm is
\* "--confirm", and delete_session calls delete and flush only when confirm
\* is "--confirm"; without the token neither makes a mutating store call.
C13_ConfirmRequired ==
  /\ (cmd \in {"drop_collection", "delete_session"} /\ confirm # "--confirm")
       => NoMutatingCall /\ CmdStoreUntouched
  /\ (Called("drop") => cmd = "drop_collection" /\ confirm = "--confirm")
  /\ (Called("delete") \/ Called("flush")
       => cmd = "delete_session" /\ confirm = "--confirm")

C13_Witness ==
  /\ cmd = "delete_session"
  /\ confirm = "other"
  /\ connected
  /\ sessionArg = << "a" >>
  /\ Len(initRecords) > 0
  /\ pc = "done"
  /\ LastSaid("need_confirm")

\* --------------------------------------------------------------- C14
\* The session id a command would put into the filter expression.
EffectiveSessionId ==
  IF cmd = "delete_session" THEN SessionIdToDelete(sessionArg) ELSE sessionArg

SessionGiven ==
  IF cmd = "delete_session" THEN ~SessionMissing(sessionArg)
  ELSE sessionArg # << >>

\* C14: a filter expression on session_id is built only after
\* validate_session_id was called and accepted the id, and a query or
\* delete with that filter comes only after the expression was built; for
\* an id that validation rejects, list_records and delete_session build no
\* expression and issue no query and no delete.
C14_ValidatedBeforeFilter ==
  /\ \A k \in 1..Len(log) :
       log[k] = "build_expr" => k > 1 /\ log[k - 1] = "validate"
  /\ (Called("build_expr") => ValidSessionId(EffectiveSessionId))
  /\ (expr.kind = "session"
        => expr.value = EffectiveSessionId /\ ValidSessionId(expr.value))
  /\ \A k \in 1..Len(log) :
       (log[k] \in {"query", "delete"} /\ SessionGiven)
         => \E j \in 1..(k - 1) : log[j] = "build_expr"
  /\ (cmd \in {"list_records", "delete_session"} /\ SessionGiven
        /\ ~ValidSessionId(EffectiveSessionId))
       => /\ ~Called("build_expr")
          /\ ~Called("query")
          /\ ~Called("delete")
          /\ expr = NoExpr

C14_Witness ==
  /\ cmd = "list_records"
  /\ sessionArg = << "a", ";" >>
  /\ Called("validate")
  /\ pc = "done"
  /\ LastSaid("bad_session")

\* --------------------------------------------------------------- C15
\* C15: when validate_session_id rejects the session id, in list_records
\* and in delete_session, no store operation (has_collection, query,
\* delete, flush) has been invoked.
C15_RejectedBeforeStoreCall ==
  LastSaid("bad_session") => \A k \in 1..Len(log) : log[k] \notin StoreCalls

\* --------------------------------------------------------------- C16
\* C16: list_records rejects every limit that is not an integer and every
\* limit outside 1..50 before has_collection or query is called.
C16_BadLimitRejected ==
  (cmd = "list_records"
     /\ ~( /\ limitArg.kind = "int" \/ (limitArg.kind = "str" /\ limitArg.numeric)
           /\ limitArg.n >= 1
           /\ limitArg.n <= 50 ))
    => ~Called("has_collection") /\ ~Called("query")

\* What the code does keep: a limit that int() cannot convert, or whose
\* converted value lies outside 1..50, is rejected before any store call; a
\* float is truncated by int() first, so 2.5 counts as 2.
UnconvertibleOrOutOfRangeRejected ==
  (cmd = "list_records"
     /\ \/ limitArg.kind = "none"
        \/ limitArg.kind = "str" /\ ~limitArg.numeric
        \/ limitArg.n < 1
        \/ limitArg.n > 50)
    => /\ log = << >>
       /\ (pc = "done" => \/ LastSaid("no_milvus")
                          \/ LastSaid("limit_not_int")
                          \/ LastSaid("limit_out_of_range"))

\* --------------------------------------------------------------- C17
\* create_time of a row, 0 when it is missing or None.
TimeOrZero(row) == IF row.time = "int" THEN row.create_time ELSE 0

ShownPks == { display[k].pk : k \in 1..Len(display) }

ListedBelowCeiling ==
  /\ cmd = "list_records"
  /\ LastSaid("records")
  /\ Len(fetched) < MAX_TOTAL_FETCH_RECORDS

\* The displayed rows are min(limit, fetched) distinct fetched rows, the
\* fetched rows are the rows the filter selects, and no row left out is
\* newer than a displayed one.
DisplayIsLatest ==
  /\ Len(display) = Min(IntConv(limitArg).val, Len(fetched))
  /\ Cardinality(ShownPks) = Len(display)
  /\ \A k \in 1..Len(display) : \E j \in 1..Len(fetched) : fetched[j] = display[k]
  /\ { fetched[j] : j \in 1..Len(fetched) }
       = { collRecords[j] : j \in { n \in 1..Len(collRecords) :
                                      Matches(collRecords[n], expr) } }
  /\ \A k \in 1..Len(display) : \A j \in 1..Len(fetched) :
       fetched[j].pk \notin ShownPks => TimeOrZero(display[k]) >= TimeOrZero(fetched[j])

\* C17 (as stated): below the ceiling the displayed rows are the
\* min(limit, fetched) newest fetched rows in strictly descending
\* create_time order, a missing or None create_time counting as 0.
C17_LatestStrictlyDescending ==
  ListedBelowCeiling =>
    /\ DisplayIsLatest
    /\ \A k \in 1..(Len(display) - 1) :
         TimeOrZero(display[k]) > TimeOrZero(display[k + 1])

\* C17 (amended): below the ceiling the displayed rows are the
\* min(limit, fetched) newest fetched rows in descending create_time order,
\* a missing or None create_time counting as 0; rows of equal create_time
\* (or several without one) follow each other, so the order is
\* non-increasing, not strict.
C17_LatestDescending ==
  ListedBelowCeiling =>
    /\ DisplayIsLatest
    /\ \A k \in 1..(Len(display) - 1) :
         TimeOrZero(display[k]) >= TimeOrZero(display[k + 1])

C17_Witness ==
  /\ ListedBelowCeiling
  /\ Len(fetched) = 2
  /\ Len(display) = 1
  /\ display[1].pk = 2
  /\ \E j \in 1..Len(fetched) : fetched[j].time = "missing"

\* --------------------------------------------------------------- C18
\* C18: when delete succeeded and the flush after it failed, the failure is
\* reported, the deleted rows stay deleted and nothing is called to put
\* them back, and neither delete nor flush is called a second time.
C18_FlushFailureReported ==
  Said("flush_error") =>
    /\ pc = "done"
    /\ LastSaid("flush_error")
    /\ log = << "validate", "build_expr", "delete", "flush" >>
    /\ \A k \in 1..Len(collRecords) : collRecords[k].session_id # expr.value
    /\ Len(collRecords) =
         Cardinality({ k \in 1..Len(initRecords) :
                         initRecords[k].session_id # expr.value })

C18_Witness ==
  /\ Said("flush_error")
  /\ pc = "done"
  /\ Len(collRecords) < Len(initRecords)
  /\ Len(collRecords) > 0

\* --------------------------------------------------------------- C19
StoreUnreachable ==
  IF cmd = "init" THEN milvus \in {"none", "lazy_fail"} ELSE ~connected

WritePath == cmd \in {"drop_collection", "delete_session", "init"}

InputBlocks == AllMnemosyneBlocks(contents)

BlocksLeft ==
  LET left == AllMnemosyneBlocks(cleaned_contents)
  IN { left[j] : j \in 1..Len(left) }

\* The n distinct block texts that appear last in list.
RECURSIVE RecentDistinct(_, _)
RecentDistinct(list, n) ==
  IF n <= 0 \/ list = << >> THEN {}
  ELSE LET last == list[Len(list)]
           rest == SelectSeq(SubSeq(list, 1, Len(list) - 1),
                             LAMBDA b : b # last)
       IN {last} \cup RecentDistinct(rest, n - 1)

\* remove_mnemosyne_tags ran with K > 0 on more than K blocks.
RetentionCase ==
  /\ cmd = "remove_tags" /\ pc = "done"
  /\ contexts_memory_len > 0
  /\ Len(InputBlocks) > contexts_memory_len

\* Every occurrence of a text of keep is left where it was, every other
\* block is replaced by the empty string, and the text around them is as
\* it was.
KeptExactly(keep) ==
  /\ Len(cleaned_contents) = Len(contents)
  /\ \A p \in 1..Len(contents) :
       (contents[p].role = "user" /\ contents[p].kind = "str")
         => /\ cleaned_contents[p].role = "user"
            /\ cleaned_contents[p].kind = "str"
            /\ cleaned_contents[p].content = Sub(contents[p].content, keep)

\* C20 (as stated): for K > 0 and more than K blocks in the user messages
\* with plain text, exactly the K most recently appearing distinct block
\* texts are preserved and every other block is erased.
C20_KeepsKRecentDistinct ==
  RetentionCase => KeptExactly(RecentDistinct(InputBlocks, contexts_memory_len))

\* C20 (amended): for K > 0 and more than K blocks, exactly the texts of
\* the last K block occurrences are preserved, in every occurrence, and
\* every other block is erased; these are the most recently appearing
\* distinct texts, K of them when the last K occurrences differ pairwise
\* and fewer when a text repeats among them.
C20_KeepsTextsOfLastK ==
  RetentionCase =>
    LET n == Len(InputBlocks)
        keep == { InputBlocks[j] : j \in (n - contexts_memory_len + 1)..n }
    IN /\ KeptExactly(keep)
       /\ Cardinality(keep) <= contexts_memory_len
       /\ keep = RecentDistinct(InputBlocks, Cardinality(keep))

C20_Witness ==
  /\ cmd = "remove_tags" /\ pc = "done"
  /\ contexts_memory_len = 1
  /\ contents = << Message("user", "str", Block("A") \o << "t" >>, FALSE),
                   Message("user", "str", Block("B") \o << "t" >>, FALSE) >>
  /\ cleaned_contents =
       << Message("user", "str", << "t" >>, FALSE),
          Message("user", "str", Block("B") \o << "t" >>, FALSE) >>

\* ------------------------------------------------ vocabulary of blocks
\* The matches of one scan of txt from index from, as << first, last >>.
RECURSIVE MatchSpans(_, _)
MatchSpans(txt, from) ==
  LET m == MatchFrom(txt, from)
  IN IF m[1] = 0 THEN {} ELSE {m} \cup MatchSpans(txt, m[2] + 1)

\* The indices of txt inside a matched block whose text is not in keep.
ErasedAt(txt, keep) ==
  { idx \in 1..Len(txt) :
      \E m \in MatchSpans(txt, 1) :
        m[1] <= idx /\ idx <= m[2] /\ SubSeq(txt, m[1], m[2]) \notin keep }

\* The elements of sequence whose index is not in gone, in order.
RECURSIVE Restrict(_, _, _)
Restrict(sequence, gone, from) ==
  IF from > Len(sequence) THEN << >>
  ELSE (IF from \in gone THEN << >> ELSE << sequence[from] >>)
         \o Restrict(sequence, gone, from + 1)

\* txt with every matched block erased whose text is not in keep.
Surviving(txt, keep) == Restrict(txt, ErasedAt(txt, keep), 1)

HasDelimiter(txt) ==
  IndexFrom(txt, OpenTag, 1) # 0 \/ IndexFrom(txt, CloseTag, 1) # 0

UserText(item) == item.role = "user" /\ item.kind = "str"

TagsDone(name) == cmd = name /\ pc = "done"

\* --------------------------------------------------------------- C21
\* C21 (as stated): for K = 0 the plain-text content of every user message
\* of the result holds no occurrence of the block delimiter.
C21_NoDelimiterLeft ==
  (TagsDone("remove_tags") /\ contexts_memory_len = 0)
    => \A p \in 1..Len(cleaned_contents) :
         UserText(cleaned_contents[p]) => ~HasDelimiter(cleaned_contents[p].content)

\* C21 (amended): for K = 0 every block that one scan from left to right
\* matches in the plain-text content of a user message is erased and the
\* rest of the text stays as it was; a delimiter outside the matched blocks
\* (a tag without partner, or a tag that the erasure of a block inside it
\* puts together) stays in the result.
C21_MatchedBlocksErased ==
  (TagsDone("remove_tags") /\ contexts_memory_len = 0)
    => /\ Len(cleaned_contents) = Len(contents)
       /\ \A p \in 1..Len(contents) :
            UserText(contents[p])
              => /\ UserText(cleaned_contents[p])
                 /\ cleaned_contents[p].content
                      = Surviving(contents[p].content, {})

C21_Witness ==
  /\ TagsDone("remove_tags") /\ contexts_memory_len = 0
  /\ contents = << Message("user", "str", Block("A") \o Block("B"), FALSE),
                   Message("user", "str", Block("A") \o << "t" >>, FALSE) >>
  /\ cleaned_contents = << Message("user", "str", << >>, FALSE),
                           Message("user", "str", << "t" >>, FALSE) >>

C23_PayloadMessageUnchanged ==
  TagsDone("remove_tags")
    => /\ Len(cleaned_contents) = Len(contents)
       /\ \A p \in 1..Len(contents) :
            (contents[p].role = "user" /\ contents[p].kind = "list")
              => cleaned_contents[p] = contents[p]

\* What the code keeps of C23: the payload itself is never changed.
PayloadContentUnchanged ==
  TagsDone("remove_tags")
    => \A p \in 1..Len(contents) :
         (contents[p].role = "user" /\ contents[p].kind = "list")
           => /\ cleaned_contents[p].content = contents[p].content
              /\ cleaned_contents[p].kind = "list"
              /\ cleaned_contents[p].role = "user"

\* --------------------------------------------------------------- C24
\* contents with the content of every message that is not a user message
\* emptied.
Blanked(items) ==
  [ p \in 1..Len(items) |->
      IF items[p].role = "user" THEN items[p]
      ELSE [items[p] EXCEPT !.content = << >>] ]

\* C24: for every K the result has the length and order of the input,
\* every message that is not a user message is in it unchanged at its
\* position, and the user messages come out as they would if the other
\* messages held no text at all (their blocks take no part in the keep
\* set).
C24_NonUserUntouched ==
  TagsDone("remove_tags")
    => /\ Len(cleaned_contents) = Len(contents)
       /\ \A p \in 1..Len(contents) :
            IF contents[p].role # "user"
            THEN cleaned_contents[p] = contents[p]
            ELSE cleaned_contents[p]
                   = remove_mnemosyne_tags(Blanked(contents),
                                           contexts_memory_len)[p]

C24_Witness ==
  /\ TagsDone("remove_tags") /\ contexts_memory_len = 1
  /\ contents = << Message("user", "str", Block("A") \o Block("B"), FALSE),
                   Message("assistant", "str", Block("A"), FALSE) >>
  /\ cleaned_contents = << Message("user", "str", Block("B"), FALSE),
                           Message("assistant", "str", Block("A"), FALSE) >>

\* --------------------------------------------------------------- C25
SystemPositions == { p \in 1..Len(contents) : contents[p].role = "system" }

\* The positions of the first n system messages.
FirstSystem(n) ==
  { p \in SystemPositions :
      Cardinality({ q \in SystemPositions : q <= p }) <= n }

\* C25: for K >= 0 and n system messages remove_system_content removes the
\* first max(0, n - K) system messages and nothing else: the other messages
\* and the last min(n, K) system messages stay, in their order.
C25_OldestSystemRemoved ==
  (TagsDone("remove_system_content") /\ contexts_memory_len >= 0)
    => LET n == Cardinality(SystemPositions)
           gone == IF n > contexts_memory_len
                   THEN n - contexts_memory_len ELSE 0
       IN /\ cleaned_contents = Restrict(contents, FirstSystem(gone), 1)
          /\ Len(cleaned_contents) = Len(contents) - gone
          /\ Cardinality({ p \in 1..Len(cleaned_contents) :
                             cleaned_contents[p].role = "system" })
               = Min(n, contexts_memory_len)

C25_Witness ==
  /\ TagsDone("remove_system_content") /\ contexts_memory_len = 1
  /\ contents = << Message("system", "str", << "t" >>, FALSE),
                   Message("user", "str", << "t" >>, FALSE),
                   Message("system", "str", Block("A"), FALSE) >>
  /\ cleaned_contents = << Message("user", "str", << "t" >>, FALSE),
                           Message("system", "str", Block("A"), FALSE) >>

\* --------------------------------------------------------------- C29
\* The texts of the last K elements of the list blocks.
TextsOfLast(blocks, K) ==
  { blocks[j] : j \in { k \in 1..Len(blocks) : k > Len(blocks) - K } }

EntriesOf(sid) == { e \in conversations : e.session_id = sid }

OneEntryPerSession ==
  \A sid \in Sessions : Cardinality(EntriesOf(sid)) <= 1

\* Thread t takes, in this step, the step of its call that is at position.
Steps(t, position) == tpc[t] = position /\ tpc'[t] # position

InBody(t) == tpc[t] \notin {"idle", "acquire"}

\* --------------------------------------------------------------- C26
\* C26: the map never holds two entries of one session_id, and init_conv
\* for a session that has an entry returns at once and leaves the map, so
\* also that entry and its last_summary_time, as it was.
C26_OneEntryIdempotentCreate ==
  /\ []OneEntryPerSession
  /\ [][ \A t \in Threads :
           (Steps(t, "ic_check") /\ Has(conversations, call[t].session_id))
             => /\ conversations' = conversations
                /\ tpc'[t] = "release" ]_vars

C26_Witness ==
  /\ cmd = "tracker"
  /\ \E t \in Threads :
       /\ call[t].op = "init_conv"
       /\ tpc[t] = "release"
       /\ Has(conversations, call[t].session_id)
       /\ ~Get(conversations, call[t].session_id).event
       /\ Get(conversations, call[t].session_id).last_summary_time < now

\* --------------------------------------------------------------- C27
\* C27: for a session without entry update_summary_time and
\* get_summary_time leave the map as it is and get_summary_time returns 0;
\* for a known session get_summary_time returns the stored
\* last_summary_time; no stored or returned time is negative.
C27_UnknownSessionUntouched ==
  /\ [](/\ \A e \in conversations : e.last_summary_time >= 0
        /\ \A t \in Threads :
             (call[t].op = "get_summary_time" /\ tpc[t] = "release")
               => /\ ret[t].kind = "time"
                  /\ ret[t].time >= 0
                  /\ ret[t].time =
                       IF EntriesOf(call[t].session_id) = {} THEN 0
                       ELSE (CHOOSE e \in EntriesOf(call[t].session_id) : TRUE)
                              .last_summary_time)
  /\ [][ \A t \in Threads :
           ((Steps(t, "us_write") \/ Steps(t, "gs_read"))
              /\ EntriesOf(call[t].session_id) = {})
             => conversations' = conversations ]_vars

C27_Witness ==
  /\ cmd = "tracker"
  /\ conversations # {}
  /\ \E t \in Threads :
       /\ call[t].op = "get_summary_time"
       /\ tpc[t] = "release"
       /\ EntriesOf(call[t].session_id) = {}
       /\ ret[t] = [kind |-> "time", time |-> 0]

\* --------------------------------------------------------------- C28
\* A step keeps every entry that has its time, and changes that time only
\* when it is the write of update_summary_time for that session.
KeepsStampedEntries ==
  \A e \in conversations :
    e.stamped =>
      \/ e \in conversations'
      \/ /\ \E t \in Threads :
              Steps(t, "us_write") /\ call[t].session_id = e.session_id
         /\ \E e2 \in conversations' :
              /\ e2.session_id = e.session_id
              /\ e2.event = e.event
              /\ e2.stamped

\* C28: under every interleaving of calls from several threads at most one
\* thread is inside a method body, and it holds the lock; whenever no
\* method is running the map is what the calls, applied one after the other
\* in the order in which they took effect, produce (so two concurrent
\* creations of one session make one entry); and no creation replaces an
\* entry that has its timestamp.
C28_CallsAreAtomic ==
  /\ [](/\ Cardinality({ t \in Threads : InBody(t) }) <= 1
        /\ \A t \in Threads : InBody(t) => lockOwner = t
        /\ OneEntryPerSession
        /\ (\A t \in Threads : ~InBody(t)) => conversations = seqMap)
  /\ [][KeepsStampedEntries]_vars

C28_Witness ==
  /\ cmd = "tracker"
  /\ \E t1, t2 \in Threads :
       /\ t1 # t2
       /\ call[t1].op = "init_conv" /\ tpc[t1] = "ic_time"
       /\ call[t2].op \in {"init_conv", "add_message"} /\ tpc[t2] = "acquire"
       /\ call[t2].session_id = call[t1].session_id
       /\ \E e \in conversations : e.session_id # call[t1].session_id /\ e.stamped

\* --------------------------------------------------------------- C30
\* The export loop has ended and the backup is about to be written.
ExportEnded == cmd = "init" /\ pc = "backup"

\* C30: when the export loop of a collection whose content did not change
\* has ended, the accumulated records are the records of the collection,
\* each once and in order, so record_count is the collection's count.
C30_ExportIsComplete ==
  ExportEnded =>
    /\ collRecords = initRecords
    /\ all_records = initRecords
    /\ Len(all_records) = Len(collRecords)

\* The same, for the runs in which every page query returned a list.
ExportCompleteWhenAnswered ==
  (ExportEnded /\ ~results.query_failed) =>
    /\ all_records = initRecords
    /\ offset = Len(initRecords)
    /\ calls.query = (Len(initRecords) \div BatchSize) + 1

\* The loop ends: every run that enters it leaves it.
ExportLoopEnds == (pc = "export") ~> (pc # "export")

ExportedOverSeveralPages ==
  /\ ExportEnded
  /\ ~results.query_failed
  /\ Len(all_records) > BatchSize

\* --------------------------------------------------------------- C31
\* Thread t takes, in this step, the write of update_summary_time for sid.
UpdateStepFor(sid) ==
  \E t \in Threads : Steps(t, "us_write") /\ call[t].session_id = sid

\* C31: the clock never goes back; a step never removes the entry of a
\* session; the last_summary_time of an entry never decreases; and it
\* changes only in the write of update_summary_time for that session.
C31_EntriesStayTimesGrow ==
  [][ /\ now' >= now
      /\ \A e \in conversations :
           /\ EntriesOf(e.session_id)' # {}
           /\ e.stamped =>
                \A e2 \in EntriesOf(e.session_id)' :
                  /\ e2.stamped
                  /\ e2.last_summary_time >= e.last_summary_time
                  /\ (e2.last_summary_time # e.last_summary_time
                        => UpdateStepFor(e.session_id)) ]_vars

\* update_summary_time has moved the time of a session that another thread
\* had read before.
C31_Witness ==
  /\ cmd = "tracker"
  /\ \E t1, t2 \in Threads :
       /\ t1 # t2
       /\ call[t1].op = "update_summary_time" /\ tpc[t1] = "release"
       /\ call[t2].op = "get_summary_time" /\ tpc[t2] = "idle"
       /\ call[t2].session_id = call[t1].session_id
       /\ ret[t2].kind = "time" /\ ret[t2].time > 0
       /\ \E e \in EntriesOf(call[t1].session_id) :
            e.stamped /\ e.last_summary_time > ret[t2].time

\* --------------------------------------------------------------- C32
\* The entry that the init_conv of the lock holder is building (lines 32
\* to 37), the only one that can lack its time.
BeingBuilt(e) ==
  /\ lockOwner \in Threads
  /\ call[lockOwner].op = "init_conv"
  /\ tpc[lockOwner] \in {"ic_event", "ic_time"}
  /\ call[lockOwner].session_id = e.session_id

\* C32: every entry has its last_summary_time, whichever method made it:
\* whenever the lock is free every entry has it, an entry without it is the
\* one the lock holder's init_conv is building, no read ever misses it, and
\* what add_message makes has it from its first state.  An entry made
\* by add_message (it has no event) never gets an event: a later init_conv
\* for its session returns at once and leaves the map as it is.
C32_EveryEntryHasTime ==
  /\ [](/\ lockOwner = 0 => \A e \in conversations : e.stamped
        /\ \A e \in conversations : ~e.stamped => BeingBuilt(e)
        /\ \A t \in Threads : ret[t].kind # "raise")
  /\ [][ /\ \A t \in Threads :
              Steps(t, "am_check") => \A e \in conversations' : e.stamped
         /\ \A e \in conversations :
              (e.stamped /\ ~e.event) =>
                /\ \A e2 \in EntriesOf(e.session_id)' : ~e2.event
                /\ \A t \in Threads :
                     (tpc[t] \in {"ic_check", "ic_create", "ic_event", "ic_time"}
                        /\ call[t].session_id = e.session_id
                        /\ tpc'[t] # tpc[t])
                       => /\ conversations' = conversations
                          /\ tpc[t] = "ic_check"
                          /\ tpc'[t] = "release" ]_vars

\* init_conv has returned for a session that add_message had created, and
\* the entry has the time of add_message and no event.
C32_Witness ==
  /\ cmd = "tracker"
  /\ \E t1, t2 \in Threads :
       /\ t1 # t2
       /\ call[t1].op = "add_message" /\ tpc[t1] = "idle" /\ callsLeft[t1] = MaxCalls - 1
       /\ call[t2].op = "init_conv" /\ tpc[t2] = "idle" /\ callsLeft[t2] = MaxCalls - 1
       /\ call[t2].session_id = call[t1].session_id
       /\ conversations = { Item(call[t1].session_id, FALSE, TRUE, 1) }
       /\ now > 1

\* --------------------------------------------------------------- C33
\* The records, among the first k, whose insert call returned success.
InsertSucceeded(k) ==
  { j \in 1..k : all_records[j].content # "" /\ outcomes[j] = << "ok", "ok" >> }

\* C33: at every point of the re-embed loop success_count is the number of
\* insert calls that returned success so far; success_count + fail_count is
\* at most the number i of records processed so far; the new collection has
\* as many rows as successes, so never more than were exported; and a step
\* issues an insert only for the record in turn, when its content is not
\* empty and its embedding call returned a vector.
C33_CountersFollowInserts ==
  /\ [](/\ success_count = Cardinality(InsertSucceeded(i))
        /\ success_count <= calls.insert
        /\ success_count + fail_count <= i
        /\ i <= Len(all_records)
        /\ (calls.drop > 0 /\ results.create = "ok")
             => /\ Len(collRecords) = success_count
                /\ Len(collRecords) <= Len(all_records))
  /\ [][ calls'.insert # calls.insert =>
           /\ calls'.insert = calls.insert + 1
           /\ pc = "reembed"
           /\ i' = i + 1
           /\ all_records[i'].content # ""
           /\ outcomes'[i'][1] = "ok"
           /\ calls'.embed = calls.embed + 1 ]_vars

\* In the middle of the loop: one insert succeeded, one returned False, and
\* a record is still to come.
C33_Witness ==
  /\ pc = "reembed"
  /\ i = 2
  /\ Len(all_records) = 3
  /\ outcomes = << << "ok", "ok" >>, << "ok", "false" >> >>
  /\ all_records[1].content # "" /\ all_records[2].content # ""
  /\ success_count = 1
  /\ fail_count = 1
  /\ calls.insert = 2

====
